---- MODULE Spec2Model ----
(***************************************************************************)
(* Model of the homeassistant-domru gateway.                               *)
(*                                                                         *)
(*  - the credentials store and the token provider                         *)
(*    (pkg/tokenmanagement/main.go), driven by concurrent outbound         *)
(*    requests that pass through the authorizing client wired in main();   *)
(*  - the MQTT device bridge (internal/homeassistant/mqtt.go): command     *)
(*    handling, broker connection, discovery and shutdown;                 *)
(*  - the retrying transport and the routes that main() sets up.           *)
(*                                                                         *)
(* Strings that the program only compares or copies (tokens) are numbers:  *)
(* 0 is the empty string, every other number is one distinct string.       *)
(***************************************************************************)
EXTENDS Integers, Sequences, FiniteSets, TLC

\* ------------------------------------------------------------------ bounds

\* Number of concurrent outbound requests (one per inbound connection).
NumReq == 2

Procs == 1..NumReq

\* ------------------------------------------------------- credentials store

\* auth.Credentials{AccessToken, RefreshToken, OperatorID}
Credentials(at, rt, op) == [at |-> at, rt |-> rt, op |-> op]

EmptyCredentials == Credentials(0, 0, 0)

\* Operator ids the upstream can answer with.
OperatorIDs == {1, 2}

\* Records the credentials file can hold when the process starts.
InitStores == {EmptyCredentials, Credentials(1, 1, 1)}

\* Values of the --refresh-token and --operator-id flags (defaults "" and 0).
FlagRefreshTokens == {0, 7}
FlagOperatorIDs == {0, 2}

VARIABLES
    store,      \* the record held by the credentials store
    pcMain,     \* main(): "start", "flags" once initFlags has run, then "serving"
    flags,      \* the --refresh-token and --operator-id values, until their
                \* only reader, overrideCredentialsWithFlags, has run
    pc,         \* per request: position in the authorizing client / RefreshToken
    tok,        \* per request: the access token attached to the request
    opid,       \* per request: the operator id attached to the request
    failedTok,  \* per request: the token of the attempt that was answered 401 (-1: none)
    credentials,\* RefreshToken's local `credentials`
    resp,       \* RefreshToken's local `refreshTokenResponse`
    refreshErr, \* what RefreshToken returned: "none", "load", "upstream", "save"
    answer,     \* per request: the upstream's answer to its last dispatch ("" before)
    result,     \* per request: "", "ok", "NoCredentials", "AuthExpired", "UpstreamFailed"
    nDispatch,  \* per request: authorized dispatches made
    nRefresh,   \* per request: RefreshToken calls made
    nUp,        \* per RefreshToken call: upstream refresh requests sent
    nSave,      \* per RefreshToken call: SaveCredentials calls made
    inbox,      \* bridge: the command messages delivered so far, in order
    hpc,        \* bridge: commandHandler is "idle" or "opening" (inside OpenDoor)
    cur,        \* bridge: commandHandler's locals while it is inside OpenDoor
    timers,     \* bridge: the pending time.AfterFunc relock closures
    log,        \* bridge: upstream calls, publishes, open failures and the
                \* disconnect, in order
    conn,       \* bridge: the broker connection, "new" before Start
    haHost,     \* bridge: m.haHost
    cycles,     \* bridge: the discoverDevices goroutines, in the order started
    tpc,        \* transport: per request "idle", "do" (inside Do) or "done"
    sent,       \* transport: per request, times it was sent to the upstream
    served,     \* mux: the inbound requests served, with the handler of each
    apc,        \* GetHomeAssistantNetworkAddress: "idle", "do", "read",
                \* "unmarshal", "select" or "returned"
    token,      \* what os.LookupEnv("SUPERVISOR_TOKEN") found: "", "unset", "set"
    called,     \* whether client.Do was called
    haconfig,   \* the local `haconfig` once the body was unmarshalled
    ret         \* what GetHomeAssistantNetworkAddress returned, or its panic

authVars == <<store, pcMain, flags, pc, tok, opid, failedTok, credentials, resp,
              refreshErr, answer, result, nDispatch, nRefresh, nUp, nSave>>

bridgeVars == <<inbox, hpc, cur, timers, log>>

lifeVars == <<conn, haHost, cycles>>

retryVars == <<tpc, sent>>

muxVars == <<served>>

addrVars == <<apc, token, called, haconfig, ret>>

vars == <<authVars, bridgeVars, lifeVars, retryVars, muxVars, addrVars>>

\* What the steps of one component leave alone.
notAuth == <<bridgeVars, lifeVars, retryVars, muxVars, addrVars>>
notBridge == <<authVars, lifeVars, retryVars, muxVars, addrVars>>

\* The store's LoadCredentials: the record, or an I/O error.
LoadCredentials == {[ok |-> TRUE, c |-> store], [ok |-> FALSE, c |-> EmptyCredentials]}

\* The store's SaveCredentials: it overwrites the whole record, or fails and
\* leaves the record as it was.
SaveCredentials(c) == {[ok |-> TRUE, s |-> c], [ok |-> FALSE, s |-> store]}

\* auth.NewCredentialsFromAuthResponse
NewCredentialsFromAuthResponse(r) == Credentials(r.at, r.rt, r.op)

\* The upstream's answers to a session refresh sent by request p: an error, or
\* an authentication response carrying a freshly issued token pair.
UpstreamRefresh(p, c) ==
    {[ok |-> FALSE, r |-> EmptyCredentials]}
    \cup {[ok |-> TRUE, r |-> [at |-> 10 + p, rt |-> 10 + p, op |-> o]] : o \in OperatorIDs}

\* The flag values once nothing reads them any more.
NoFlags == [rt |-> 0, op |-> 0]

\* The zero value of HAConfig, and no return value yet.
ZeroHAConfig == [result |-> "", interfaces |-> <<>>]
NoReturn == [kind |-> "none", addr |-> <<>>, err |-> ""]

\* commandHandler's locals when no command is being handled.
NoCommand == [cmd |-> 0, stateTopic |-> <<>>]

Init ==
    /\ store \in InitStores
    /\ pcMain = "start"
    /\ flags = NoFlags
    /\ pc = [p \in Procs |-> "idle"]
    /\ tok = [p \in Procs |-> 0]
    /\ opid = [p \in Procs |-> 0]
    /\ failedTok = [p \in Procs |-> -1]
    /\ credentials = [p \in Procs |-> EmptyCredentials]
    /\ resp = [p \in Procs |-> EmptyCredentials]
    /\ refreshErr = [p \in Procs |-> "none"]
    /\ answer = [p \in Procs |-> ""]
    /\ result = [p \in Procs |-> ""]
    /\ nDispatch = [p \in Procs |-> 0]
    /\ nRefresh = [p \in Procs |-> 0]
    /\ nUp = [p \in Procs |-> 0]
    /\ nSave = [p \in Procs |-> 0]
    /\ inbox = <<>>
    /\ hpc = "idle"
    /\ cur = NoCommand
    /\ timers = {}
    /\ log = <<>>
    /\ conn = "new"
    /\ haHost = ""
    /\ cycles = <<>>
    /\ tpc = [p \in Procs |-> "idle"]
    /\ sent = [p \in Procs |-> 0]
    /\ served = <<>>
    /\ apc = "idle"
    /\ token = ""
    /\ called = FALSE
    /\ haconfig = ZeroHAConfig
    /\ ret = NoReturn

\* ------------------------------------------------------------------ main()

\* initFlags: the command line, the config file and the environment give the
\* two flags their values.
initFlags ==
    /\ pcMain = "start"
    /\ pcMain' = "flags"
    /\ \E frt \in FlagRefreshTokens, fop \in FlagOperatorIDs :
          flags' = [rt |-> frt, op |-> fop]
    /\ UNCHANGED <<store, answer, pc, tok, opid, failedTok, credentials, resp, refreshErr,
                   result, nDispatch, nRefresh, nUp, nSave>>

\* overrideCredentialsWithFlags writing the record when either flag is set.
overrideCredentialsWithFlags_EitherFlag ==
    /\ pcMain = "flags"
    /\ pcMain' = "serving"
    /\ flags' = NoFlags
    /\ IF flags.rt # 0 \/ flags.op # 0
       THEN \E sv \in SaveCredentials(Credentials(0, flags.rt, flags.op)) : store' = sv.s
       ELSE store' = store
    /\ UNCHANGED <<answer, pc, tok, opid, failedTok, credentials, resp, refreshErr,
                   result, nDispatch, nRefresh, nUp, nSave>>

\* overrideCredentialsWithFlags, called once before the token provider exists.
overrideCredentialsWithFlags ==
    /\ pcMain = "flags"
    /\ pcMain' = "serving"
    /\ flags' = NoFlags
    /\ IF flags.rt # 0 /\ flags.op # 0
       THEN \E sv \in SaveCredentials(Credentials(0, flags.rt, flags.op)) : store' = sv.s
       ELSE store' = store
    /\ UNCHANGED <<answer, pc, tok, opid, failedTok, credentials, resp, refreshErr,
                   result, nDispatch, nRefresh, nUp, nSave>>

\* ------------------------------------------------- ValidTokenProvider

\* Request p returns to its caller with `res`; its locals go out of scope.
Return(p, res) ==
    /\ pc' = [pc EXCEPT ![p] = "done"]
    /\ result' = [result EXCEPT ![p] = res]
    /\ tok' = [tok EXCEPT ![p] = 0]
    /\ opid' = [opid EXCEPT ![p] = 0]
    /\ failedTok' = [failedTok EXCEPT ![p] = -1]

\* GetToken answering from a copy kept from the request's first attempt.
GetToken_Cached(p, at, next) ==
    /\ pc[p] = at
    /\ \E l \in LoadCredentials :
          IF l.ok
          THEN /\ tok' = [tok EXCEPT ![p] = IF failedTok[p] # -1 THEN failedTok[p] ELSE l.c.at]
               /\ pc' = [pc EXCEPT ![p] = next]
               /\ UNCHANGED <<result, opid, failedTok>>
          ELSE Return(p, "NoCredentials")
    /\ UNCHANGED <<answer, store, pcMain, flags, credentials, resp, refreshErr,
                   nDispatch, nRefresh, nUp, nSave>>

\* GetToken, called by request p at position `at`, continuing at `next`.
GetToken(p, at, next) ==
    /\ pc[p] = at
    /\ \E l \in LoadCredentials :
          IF l.ok
          THEN /\ tok' = [tok EXCEPT ![p] = l.c.at]
               /\ pc' = [pc EXCEPT ![p] = next]
               /\ UNCHANGED <<result, opid, failedTok>>
          ELSE Return(p, "NoCredentials")
    /\ UNCHANGED <<answer, store, pcMain, flags, credentials, resp, refreshErr,
                   nDispatch, nRefresh, nUp, nSave>>

\* GetOperatorID, called by request p at position `at`, continuing at `next`.
GetOperatorID(p, at, next) ==
    /\ pc[p] = at
    /\ \E l \in LoadCredentials :
          IF l.ok
          THEN /\ opid' = [opid EXCEPT ![p] = l.c.op]
               /\ pc' = [pc EXCEPT ![p] = next]
               /\ UNCHANGED <<result, tok, failedTok>>
          ELSE Return(p, "NoCredentials")
    /\ UNCHANGED <<answer, store, pcMain, flags, credentials, resp, refreshErr,
                   nDispatch, nRefresh, nUp, nSave>>

\* RefreshToken returns `err` to request p; its locals go out of scope.
RefreshReturn(p, err) ==
    /\ pc' = [pc EXCEPT ![p] = "rRet"]
    /\ refreshErr' = [refreshErr EXCEPT ![p] = err]
    /\ credentials' = [credentials EXCEPT ![p] = EmptyCredentials]
    /\ resp' = [resp EXCEPT ![p] = EmptyCredentials]

\* RefreshToken, first step: credentialsStore.LoadCredentials().
RefreshLoad(p) ==
    /\ pc[p] = "rLoad"
    /\ \E l \in LoadCredentials :
          IF l.ok
          THEN /\ credentials' = [credentials EXCEPT ![p] = l.c]
               /\ pc' = [pc EXCEPT ![p] = "rSend"]
               /\ UNCHANGED <<refreshErr, resp>>
          ELSE RefreshReturn(p, "load")
    /\ UNCHANGED <<answer, store, pcMain, flags, tok, opid, failedTok, result,
                   nDispatch, nRefresh, nUp, nSave>>

\* RefreshSend writing a record without access token when the upstream fails.
RefreshSend_PartialWrite(p) ==
    /\ pc[p] = "rSend"
    /\ nUp' = [nUp EXCEPT ![p] = @ + 1]
    /\ \E u \in UpstreamRefresh(p, credentials[p]) :
          IF u.ok
          THEN /\ resp' = [resp EXCEPT ![p] = u.r]
               /\ pc' = [pc EXCEPT ![p] = "rSave"]
               /\ UNCHANGED <<refreshErr, credentials, store>>
          ELSE /\ RefreshReturn(p, "upstream")
               /\ store' = Credentials(0, credentials[p].rt, credentials[p].op)
    /\ UNCHANGED <<answer, pcMain, flags, tok, opid, failedTok, result,
                   nDispatch, nRefresh, nSave>>

\* RefreshSend sending the refresh request again when it fails.
RefreshSend_Retry(p) ==
    /\ pc[p] = "rSend"
    /\ nUp' = [nUp EXCEPT ![p] = @ + 1]
    /\ \E u \in UpstreamRefresh(p, credentials[p]) :
          IF u.ok
          THEN /\ resp' = [resp EXCEPT ![p] = u.r]
               /\ pc' = [pc EXCEPT ![p] = "rSave"]
               /\ UNCHANGED <<refreshErr, credentials>>
          ELSE UNCHANGED <<resp, pc, refreshErr, credentials>>
    /\ UNCHANGED <<answer, store, pcMain, flags, tok, opid, failedTok, result,
                   nDispatch, nRefresh, nSave>>

\* RefreshToken, second step: the upstream refresh request with the loaded
\* refresh token and operator id.
RefreshSend(p) ==
    /\ pc[p] = "rSend"
    /\ nUp' = [nUp EXCEPT ![p] = @ + 1]
    /\ \E u \in UpstreamRefresh(p, credentials[p]) :
          IF u.ok
          THEN /\ resp' = [resp EXCEPT ![p] = u.r]
               /\ pc' = [pc EXCEPT ![p] = "rSave"]
               /\ UNCHANGED <<refreshErr, credentials>>
          ELSE RefreshReturn(p, "upstream")
    /\ UNCHANGED <<answer, store, pcMain, flags, tok, opid, failedTok, result,
                   nDispatch, nRefresh, nSave>>

\* RefreshSave reporting success without writing the store.
RefreshSave_NoWrite(p) ==
    /\ pc[p] = "rSave"
    /\ nSave' = [nSave EXCEPT ![p] = @ + 1]
    /\ store' = store
    /\ RefreshReturn(p, "none")
    /\ UNCHANGED <<answer, pcMain, flags, tok, opid, failedTok, result,
                   nDispatch, nRefresh, nUp>>

\* RefreshSave keeping the operator id of the record it loaded.
RefreshSave_KeepOperator(p) ==
    /\ pc[p] = "rSave"
    /\ nSave' = [nSave EXCEPT ![p] = @ + 1]
    /\ \E sv \in SaveCredentials(Credentials(resp[p].at, resp[p].rt, credentials[p].op)) :
          /\ store' = sv.s
          /\ RefreshReturn(p, IF sv.ok THEN "none" ELSE "save")
    /\ UNCHANGED <<answer, pcMain, flags, tok, opid, failedTok, result,
                   nDispatch, nRefresh, nUp>>

\* RefreshToken, third step: SaveCredentials(NewCredentialsFromAuthResponse(...)).
RefreshSave(p) ==
    /\ pc[p] = "rSave"
    /\ nSave' = [nSave EXCEPT ![p] = @ + 1]
    /\ \E sv \in SaveCredentials(NewCredentialsFromAuthResponse(resp[p])) :
          /\ store' = sv.s
          /\ RefreshReturn(p, IF sv.ok THEN "none" ELSE "save")
    /\ UNCHANGED <<answer, pcMain, flags, tok, opid, failedTok, result,
                   nDispatch, nRefresh, nUp>>

\* ------------------------------------------------- authorizing client

\* A caller (the reverse proxy, the API wrapper) hands a request to the client.
StartRequest(p) ==
    /\ pcMain = "serving"
    /\ pc[p] = "idle"
    /\ pc' = [pc EXCEPT ![p] = "getTok"]
    /\ UNCHANGED <<answer, store, pcMain, flags, tok, opid, failedTok, credentials, resp,
                   refreshErr, result, nDispatch, nRefresh, nUp, nSave>>

\* Dispatch refreshing again after every authorization failure.
Dispatch_RefreshAgain(p) ==
    /\ pc[p] = "dispatch"
    /\ nDispatch' = [nDispatch EXCEPT ![p] = @ + 1]
    /\ \E r \in {"ok", "auth", "err"} :
          /\ answer' = [answer EXCEPT ![p] = r]
          /\ CASE r = "ok" -> Return(p, "ok") /\ UNCHANGED nRefresh
            [] r = "err" -> Return(p, "UpstreamFailed") /\ UNCHANGED nRefresh
            [] OTHER ->
                 /\ failedTok' = [failedTok EXCEPT ![p] = tok[p]]
                 /\ tok' = [tok EXCEPT ![p] = 0]
                 /\ opid' = [opid EXCEPT ![p] = 0]
                 /\ nRefresh' = [nRefresh EXCEPT ![p] = @ + 1]
                 /\ pc' = [pc EXCEPT ![p] = "rLoad"]
                 /\ UNCHANGED result
    /\ UNCHANGED <<store, pcMain, flags, credentials, resp, refreshErr, nUp, nSave>>

\* The request goes out with the token and operator id attached; the upstream
\* answers ok, with an authorization failure, or the dispatch fails.  An
\* authorization failure of the first attempt leads to RefreshToken.
Dispatch(p) ==
    /\ pc[p] = "dispatch"
    /\ nDispatch' = [nDispatch EXCEPT ![p] = @ + 1]
    /\ \E r \in {"ok", "auth", "err"} :
          /\ answer' = [answer EXCEPT ![p] = r]
          /\ CASE r = "ok" -> Return(p, "ok") /\ UNCHANGED nRefresh
            [] r = "err" -> Return(p, "UpstreamFailed") /\ UNCHANGED nRefresh
            [] r = "auth" /\ nDispatch[p] = 0 ->
                 /\ failedTok' = [failedTok EXCEPT ![p] = tok[p]]
                 /\ tok' = [tok EXCEPT ![p] = 0]
                 /\ opid' = [opid EXCEPT ![p] = 0]
                 /\ nRefresh' = [nRefresh EXCEPT ![p] = @ + 1]
                 /\ pc' = [pc EXCEPT ![p] = "rLoad"]
                 /\ UNCHANGED result
            [] OTHER -> Return(p, "AuthExpired") /\ UNCHANGED nRefresh
    /\ UNCHANGED <<store, pcMain, flags, credentials, resp, refreshErr, nUp, nSave>>

\* RefreshToken has returned: rebuild the request, or give up.
AfterRefresh(p) ==
    /\ pc[p] = "rRet"
    /\ IF refreshErr[p] = "none"
       THEN /\ pc' = [pc EXCEPT ![p] = "getTok2"]
            /\ UNCHANGED <<result, tok, opid, failedTok>>
       ELSE Return(p, "AuthExpired")
    /\ UNCHANGED <<answer, store, pcMain, flags, credentials, resp,
                   refreshErr, nDispatch, nRefresh, nUp, nSave>>

\* ------------------------------------------------------ text helpers

\* Strings the bridge formats and scans are sequences of one-character strings.
DecimalDigits == <<"0", "1", "2", "3", "4", "5", "6", "7", "8", "9">>

IsDigit(c) == \E d \in 1..10 : DecimalDigits[d] = c

DigitValue(c) == (CHOOSE d \in 1..10 : DecimalDigits[d] = c) - 1

\* fmt's %d of a non-negative and of a negative int.
RECURSIVE FormatNat(_)
FormatNat(n) == IF n < 10 THEN <<DecimalDigits[n + 1]>>
                ELSE FormatNat(n \div 10) \o <<DecimalDigits[(n % 10) + 1]>>

FormatInt(n) == IF n < 0 THEN <<"-">> \o FormatNat(0 - n) ELSE FormatNat(n)

TopicPrefix == <<"d", "o", "m", "r", "u", "/", "d", "o", "m", "r", "u", "-",
                 "d", "o", "o", "r", "_">>
CommandSuffix == <<"-", "o", "p", "e", "n", "/", "c", "o", "m", "m", "a", "n", "d">>
StateSuffix == <<"-", "o", "p", "e", "n", "/", "s", "t", "a", "t", "e">>

\* fmt.Sprintf("domru/domru-door_%d_%d-open/command", acID, placeID)
CommandTopicOf(acID, placeID) ==
    TopicPrefix \o FormatInt(acID) \o <<"_">> \o FormatInt(placeID) \o CommandSuffix

\* fmt.Sprintf("domru/domru-door_%d_%d-open/state", acID, placeID)
StateTopicOf(acID, placeID) ==
    TopicPrefix \o FormatInt(acID) \o <<"_">> \o FormatInt(placeID) \o StateSuffix

\* Scanning a literal piece of the format at position i of s: the position
\* after it, or 0 when the input differs or ends.
ScanLiteral(s, i, lit) ==
    IF i = 0 \/ i + Len(lit) - 1 > Len(s) THEN 0
    ELSE IF \A k \in 1..Len(lit) : s[i + k - 1] = lit[k] THEN i + Len(lit) ELSE 0

RECURSIVE SkipSpace(_, _)
SkipSpace(s, i) == IF i <= Len(s) /\ s[i] = " " THEN SkipSpace(s, i + 1) ELSE i

RECURSIVE ScanDigits(_, _, _)
\* The digits at position i: [val, next], the value read so far being acc.
ScanDigits(s, i, acc) ==
    IF i <= Len(s) /\ IsDigit(s[i])
    THEN ScanDigits(s, i + 1, acc * 10 + DigitValue(s[i]))
    ELSE [val |-> acc, next |-> i]

\* fmt's scan of a %d verb at position i: leading spaces, an optional sign, then
\* at least one decimal digit.  [ok, val, next].
ScanInt(s, i) ==
    IF i = 0 THEN [ok |-> FALSE, val |-> 0, next |-> 0]
    ELSE LET j == SkipSpace(s, i)
             neg == j <= Len(s) /\ s[j] = "-"
             k == IF j <= Len(s) /\ s[j] \in {"+", "-"} THEN j + 1 ELSE j
         IN  IF k <= Len(s) /\ IsDigit(s[k])
             THEN LET d == ScanDigits(s, k, 0)
                  IN  [ok |-> TRUE, val |-> IF neg THEN 0 - d.val ELSE d.val,
                       next |-> d.next]
             ELSE [ok |-> FALSE, val |-> 0, next |-> 0]

\* fmt.Sscanf(topic, "domru/domru-door_%d_%d-open/command", &acID, &placeID)
Sscanf(topic) ==
    LET a == ScanInt(topic, ScanLiteral(topic, 1, TopicPrefix))
        b == ScanInt(topic, IF a.ok THEN ScanLiteral(topic, a.next, <<"_">>) ELSE 0)
        e == IF b.ok THEN ScanLiteral(topic, b.next, CommandSuffix) ELSE 0
    IN  [ok |-> a.ok /\ b.ok /\ e # 0,
         acID |-> a.val,
         placeID |-> IF a.ok /\ b.ok THEN b.val ELSE 0]

Request(p) ==
    \/ StartRequest(p) /\ UNCHANGED notAuth
    \/ GetToken(p, "getTok", "getOp") /\ UNCHANGED notAuth
    \/ GetOperatorID(p, "getOp", "dispatch") /\ UNCHANGED notAuth
    \/ Dispatch(p) /\ UNCHANGED notAuth
    \/ RefreshLoad(p) /\ UNCHANGED notAuth
    \/ RefreshSend(p) /\ UNCHANGED notAuth
    \/ RefreshSave(p) /\ UNCHANGED notAuth
    \/ AfterRefresh(p) /\ UNCHANGED notAuth
    \/ GetToken(p, "getTok2", "getOp2") /\ UNCHANGED notAuth
    \/ GetOperatorID(p, "getOp2", "dispatch") /\ UNCHANGED notAuth

Next ==
    \/ initFlags /\ UNCHANGED notAuth
    \/ overrideCredentialsWithFlags /\ UNCHANGED notAuth
    \/ \E p \in Procs : Request(p)

\* The credentials store, the token provider and the authorizing client.
Spec == Init /\ [][Next]_vars

\* ---------------------------------------------------- MqttIntegration

\* Number of command messages the broker delivers.
MaxCmds == 2

\* (accessControlID, placeID) of the door entities.
Entities == {<<7, 3>>, <<3, 7>>}

\* A command topic that lacks the place id.
MalformedTopic == TopicPrefix \o <<"7">> \o CommandSuffix

\* A command topic that writes the ids of entity (7, 3) as "+7" and "03".
SignedTopic == TopicPrefix \o <<"+", "7", "_", "0", "3">> \o CommandSuffix

\* Topics and payloads of the messages that arrive on domru/+/command.
CommandTopics ==
    {CommandTopicOf(e[1], e[2]) : e \in Entities} \cup {MalformedTopic, SignedTopic}
CommandPayloads == {"UNLOCK", "LOCK", "PING"}

\* m.domruAPI.OpenDoor(placeID, acID), as issued by command number c.
OpenDoorCall(c, placeID, acID) ==
    [kind |-> "OpenDoor", cmd |-> c, placeID |-> placeID, acID |-> acID,
     topic |-> <<>>, payload |-> "", by |-> "handler"]

\* m.client.Publish(topic, 1, true, payload), caused by command number c, from
\* the handler or from its relock timer.
Publish(c, topic, payload, by) ==
    [kind |-> "Publish", cmd |-> c, placeID |-> 0, acID |-> 0,
     topic |-> topic, payload |-> payload, by |-> by, retained |-> TRUE]

\* m.logger.Error("Failed to open door", ...)
OpenFailed(c) ==
    [kind |-> "OpenFailed", cmd |-> c, placeID |-> 0, acID |-> 0,
     topic |-> <<>>, payload |-> "", by |-> "handler"]

\* OpenDoor called with the two ids in the order the topic carries them.
OpenDoorArgs_Swapped(acID, placeID) == [placeID |-> acID, acID |-> placeID]

\* The arguments commandHandler passes to OpenDoor for the scanned ids.
OpenDoorArgs(acID, placeID) == [placeID |-> placeID, acID |-> acID]

\* commandHandler with a LOCK case that arms the relock timer as well.
commandHandler_LockArmsTimer(topic, command) ==
    /\ hpc = "idle"
    /\ Len(inbox) < MaxCmds
    /\ inbox' = Append(inbox, [topic |-> topic, payload |-> command])
    /\ LET c == Len(inbox) + 1
           sc == Sscanf(topic)
           stateTopic == StateTopicOf(sc.acID, sc.placeID)
           args == OpenDoorArgs(sc.acID, sc.placeID)
       IN  IF ~sc.ok
           THEN UNCHANGED <<hpc, cur, log, timers>>
           ELSE CASE command = "UNLOCK" ->
                       /\ log' = Append(log, OpenDoorCall(c, args.placeID, args.acID))
                       /\ hpc' = "opening"
                       /\ cur' = [cmd |-> c, stateTopic |-> stateTopic]
                       /\ UNCHANGED timers
                  [] command = "LOCK" ->
                       /\ log' = Append(log, Publish(c, stateTopic, "LOCKED", "handler"))
                       /\ timers' = timers \cup {[cmd |-> c, stateTopic |-> stateTopic]}
                       /\ UNCHANGED <<hpc, cur>>
                  [] OTHER -> UNCHANGED <<hpc, cur, log, timers>>

\* commandHandler up to its return or to the OpenDoor call.  The client calls
\* the handlers of one subscription one at a time.
commandHandler(topic, command) ==
    /\ hpc = "idle"
    /\ Len(inbox) < MaxCmds
    /\ inbox' = Append(inbox, [topic |-> topic, payload |-> command])
    /\ LET c == Len(inbox) + 1
           sc == Sscanf(topic)
           stateTopic == StateTopicOf(sc.acID, sc.placeID)
           args == OpenDoorArgs(sc.acID, sc.placeID)
       IN  IF ~sc.ok
           THEN UNCHANGED <<hpc, cur, log>>
           ELSE CASE command = "UNLOCK" ->
                       /\ log' = Append(log, OpenDoorCall(c, args.placeID, args.acID))
                       /\ hpc' = "opening"
                       /\ cur' = [cmd |-> c, stateTopic |-> stateTopic]
                  [] command = "LOCK" ->
                       /\ log' = Append(log, Publish(c, stateTopic, "LOCKED", "handler"))
                       /\ UNCHANGED <<hpc, cur>>
                  [] OTHER -> UNCHANGED <<hpc, cur, log>>
    /\ UNCHANGED timers

\* OpenDoorReturn confirming the locked state when the open action failed.
OpenDoorReturn_PublishOnFailure ==
    /\ hpc = "opening"
    /\ \E ok \in BOOLEAN :
          IF ok
          THEN /\ log' = Append(log, Publish(cur.cmd, cur.stateTopic, "UNLOCKED", "handler"))
               /\ timers' = timers \cup {[cmd |-> cur.cmd, stateTopic |-> cur.stateTopic]}
          ELSE /\ log' = log \o <<OpenFailed(cur.cmd),
                                  Publish(cur.cmd, cur.stateTopic, "LOCKED", "handler")>>
               /\ timers' = timers
    /\ hpc' = "idle"
    /\ cur' = NoCommand
    /\ UNCHANGED inbox

\* OpenDoorReturn publishing UNLOCKED without arming the relock timer.
OpenDoorReturn_NoTimer ==
    /\ hpc = "opening"
    /\ \E ok \in BOOLEAN :
          IF ok
          THEN log' = Append(log, Publish(cur.cmd, cur.stateTopic, "UNLOCKED", "handler"))
          ELSE log' = Append(log, OpenFailed(cur.cmd))
    /\ timers' = timers
    /\ hpc' = "idle"
    /\ cur' = NoCommand
    /\ UNCHANGED inbox

\* OpenDoor returns inside commandHandler's UNLOCK case.
OpenDoorReturn ==
    /\ hpc = "opening"
    /\ \E ok \in BOOLEAN :
          IF ok
          THEN /\ log' = Append(log, Publish(cur.cmd, cur.stateTopic, "UNLOCKED", "handler"))
               /\ timers' = timers \cup {[cmd |-> cur.cmd, stateTopic |-> cur.stateTopic]}
          ELSE /\ log' = Append(log, OpenFailed(cur.cmd))
               /\ timers' = timers
    /\ hpc' = "idle"
    /\ cur' = NoCommand
    /\ UNCHANGED inbox

\* The closure given to time.AfterFunc(5*time.Second, ...) runs.
relockTimer(t) ==
    /\ t \in timers
    /\ log' = Append(log, Publish(t.cmd, t.stateTopic, "LOCKED", "timer"))
    /\ timers' = timers \ {t}
    /\ UNCHANGED <<inbox, hpc, cur>>

NextBridge ==
    \/ \E topic \in CommandTopics, command \in CommandPayloads :
          commandHandler(topic, command) /\ UNCHANGED notBridge
    \/ OpenDoorReturn /\ UNCHANGED notBridge
    \/ \E t \in timers : relockTimer(t) /\ UNCHANGED notBridge

\* The device bridge: command handling and relock timers.
SpecBridge == Init /\ [][NextBridge]_vars

\* ------------------------------------- MqttIntegration: connection, discovery

\* Times the client establishes the broker connection.
MaxConnects == 2

\* The value Start gives m.haHost.
HaHost == "https://home.pallam.dev/"

\* The quiesce time Stop gives Disconnect, in milliseconds.
DisconnectQuiesce == 250

\* The availability topic, which carries the will "offline" as well.
StatusTopic ==
    <<"d", "o", "m", "r", "u", "_", "p", "r", "o", "x", "y", "/",
      "s", "t", "a", "t", "u", "s">>

\* Places responses of the upstream: each place has an id and its access
\* controls, each access control an id and a name.
TwoPlaces ==
    <<[id |-> 3, accessControls |-> <<[id |-> 7, name |-> "Gate"]>>],
      [id |-> 7, accessControls |-> <<[id |-> 3, name |-> "Porch"]>>]>>
EmptyPlace == <<[id |-> 3, accessControls |-> <<>>]>>
PlacesResponses == {TwoPlaces, EmptyPlace}

\* What m.domruAPI.RequestPlaces() returns: an error or a places response.
RequestPlaces ==
    {[ok |-> FALSE, places |-> <<>>]}
    \cup {[ok |-> TRUE, places |-> r] : r \in PlacesResponses}

\* The (ac, placeID) arguments of the publishDoorLock calls that the two
\* nested loops of discoverDevices make for a places response, in order.
RECURSIVE Doors(_)
Doors(places) ==
    IF places = <<>>
    THEN <<>>
    ELSE LET place == Head(places)
         IN  [i \in DOMAIN place.accessControls |->
                 [ac |-> place.accessControls[i], placeID |-> place.id]]
             \o Doors(Tail(places))

\* deviceID with the place id written first.
DeviceID_PlaceFirst(acID, placeID) ==
    <<"d", "o", "m", "r", "u", "-", "d", "o", "o", "r", "_">>
    \o FormatInt(placeID) \o <<"_">> \o FormatInt(acID)

\* publishDoorLock's deviceID, entityID and the three topics.
DeviceID(acID, placeID) ==
    <<"d", "o", "m", "r", "u", "-", "d", "o", "o", "r", "_">>
    \o FormatInt(acID) \o <<"_">> \o FormatInt(placeID)
EntityID(acID, placeID) == DeviceID(acID, placeID) \o <<"-", "o", "p", "e", "n">>
DiscoveryTopic(entityID) ==
    <<"h", "o", "m", "e", "a", "s", "s", "i", "s", "t", "a", "n", "t", "/", "l", "o", "c", "k", "/">>
    \o entityID \o <<"/", "c", "o", "n", "f", "i", "g">>
DoorCommandTopic(entityID) ==
    <<"d", "o", "m", "r", "u", "/">> \o entityID
    \o <<"/", "c", "o", "m", "m", "a", "n", "d">>
DoorStateTopic(entityID) ==
    <<"d", "o", "m", "r", "u", "/">> \o entityID \o <<"/", "s", "t", "a", "t", "e">>

\* constants.GetSnapshotUrl(haHost, placeID, accessControlID): a text made
\* of its three arguments.
GetSnapshotUrl(host, placeID, acID) == <<host, placeID, acID>>

\* The payload with a name that counts the publishes made so far.
MqttLock_Numbered(ac, placeID, host) ==
    [name |-> <<"Open", ac.name, Len(log)>>,
     unique_id |-> EntityID(ac.id, placeID),
     command_topic |-> DoorCommandTopic(EntityID(ac.id, placeID)),
     state_topic |-> DoorStateTopic(EntityID(ac.id, placeID)),
     payload_unlock |-> "UNLOCK", payload_lock |-> "LOCK",
     state_unlocked |-> "UNLOCKED", state_locked |-> "LOCKED",
     optimistic |-> TRUE,
     device |-> [identifiers |-> <<DeviceID(ac.id, placeID)>>, name |-> ac.name,
                 model |-> "Doorphone", manufacturer |-> "Dom.ru"],
     icon |-> "mdi:door",
     entity_picture |-> IF host # "" THEN GetSnapshotUrl(host, placeID, ac.id) ELSE <<>>,
     availability_topic |-> StatusTopic]

\* The MqttLock that publishDoorLock marshals for an access control.
MqttLock(ac, placeID, host) ==
    [name |-> <<"Open", ac.name>>,
     unique_id |-> EntityID(ac.id, placeID),
     command_topic |-> DoorCommandTopic(EntityID(ac.id, placeID)),
     state_topic |-> DoorStateTopic(EntityID(ac.id, placeID)),
     payload_unlock |-> "UNLOCK", payload_lock |-> "LOCK",
     state_unlocked |-> "UNLOCKED", state_locked |-> "LOCKED",
     optimistic |-> TRUE,
     device |-> [identifiers |-> <<DeviceID(ac.id, placeID)>>, name |-> ac.name,
                 model |-> "Doorphone", manufacturer |-> "Dom.ru"],
     icon |-> "mdi:door",
     entity_picture |-> IF host # "" THEN GetSnapshotUrl(host, placeID, ac.id) ELSE <<>>,
     availability_topic |-> StatusTopic]

\* m.domruAPI.RequestPlaces(), as called by discovery cycle number k.
RequestPlacesCall(k) ==
    [kind |-> "RequestPlaces", cmd |-> 0 - k, placeID |-> 0, acID |-> 0,
     topic |-> <<>>, payload |-> "", by |-> "discovery"]

\* m.client.Publish(discoveryTopic, 1, true, jsonPayload) in the
\* publishDoorLock(ac, placeID) call of cycle number k; `lock` is the MqttLock
\* that jsonPayload encodes.
PublishConfig(k, acID, placeID, topic, lock) ==
    [kind |-> "Publish", cmd |-> 0 - k, placeID |-> placeID, acID |-> acID,
     topic |-> topic, payload |-> "MqttLock", by |-> "discovery",
     retained |-> TRUE, lock |-> lock]

\* m.client.Disconnect(quiesce)
Disconnect(quiesce) ==
    [kind |-> "Disconnect", cmd |-> 0, placeID |-> 0, acID |-> 0,
     topic |-> <<>>, payload |-> "", by |-> "stop", quiesce |-> quiesce]

\* A discoverDevices goroutine in its initial sleep.
NewCycle == [pc |-> "sleep", places |-> <<>>, next |-> 1]

\* Start: returns at once without SUPERVISOR_TOKEN; otherwise sets haHost,
\* registers the will and the handlers and connects, which can fail.
Start ==
    /\ conn = "new"
    /\ \E supervised \in BOOLEAN, connected \in BOOLEAN :
          IF supervised
          THEN /\ haHost' = HaHost
               /\ conn' = IF connected THEN "up" ELSE "failed"
          ELSE /\ haHost' = haHost
               /\ conn' = "off"
    /\ UNCHANGED <<cycles, bridgeVars>>

\* connectHandler, which the client calls each time the connection is up:
\* publishes "online", subscribes to domru/+/command and domru/+/state and
\* starts a discoverDevices goroutine.
connectHandler ==
    /\ conn = "up"
    /\ conn' = "connected"
    /\ log' = Append(log, Publish(0, StatusTopic, "online", "connect"))
    /\ cycles' = Append(cycles, NewCycle)
    /\ UNCHANGED <<haHost, inbox, hpc, cur, timers>>

\* connectionLostHandler: the connection broke; it logs.
connectionLostHandler ==
    /\ conn = "connected"
    /\ conn' = "lost"
    /\ UNCHANGED <<haHost, cycles, bridgeVars>>

\* The client's automatic reconnect (the options' default) succeeds.
reconnect ==
    /\ conn = "lost"
    /\ Len(cycles) < MaxConnects
    /\ conn' = "up"
    /\ UNCHANGED <<haHost, cycles, bridgeVars>>

\* discoverDevices of cycle k from the end of its sleep to the loops: it asks
\* the upstream for the places and returns on an error.
discoverDevices(k) ==
    /\ k \in DOMAIN cycles
    /\ conn # "stopped"
    /\ cycles[k].pc = "sleep"
    /\ log' = Append(log, RequestPlacesCall(k))
    /\ \E r \in RequestPlaces :
          cycles' = [cycles EXCEPT ![k] =
                        IF ~r.ok THEN [pc |-> "failed", places |-> <<>>, next |-> 1]
                        ELSE [pc |-> IF Doors(r.places) = <<>> THEN "done" ELSE "loop",
                              places |-> r.places, next |-> 1]]
    /\ UNCHANGED <<conn, haHost, inbox, hpc, cur, timers>>

\* publishDoorLock publishing the discovery message only.
publishDoorLock_ConfigOnly(k) ==
    /\ k \in DOMAIN cycles
    /\ conn # "stopped"
    /\ cycles[k].pc = "loop"
    /\ LET doors == Doors(cycles[k].places)
           d == doors[cycles[k].next]
           entityID == EntityID(d.ac.id, d.placeID)
       IN  /\ log' = Append(log, PublishConfig(k, d.ac.id, d.placeID, DiscoveryTopic(entityID),
                                               MqttLock(d.ac, d.placeID, haHost)))
           /\ cycles' = [cycles EXCEPT ![k].next = @ + 1,
                                       ![k].pc = IF cycles[k].next = Len(doors)
                                                 THEN "done" ELSE "loop"]
    /\ UNCHANGED <<conn, haHost, inbox, hpc, cur, timers>>

\* The next publishDoorLock(ac, placeID) call of cycle k: the retained
\* discovery message, then the retained initial state.
publishDoorLock(k) ==
    /\ k \in DOMAIN cycles
    /\ conn # "stopped"
    /\ cycles[k].pc = "loop"
    /\ LET doors == Doors(cycles[k].places)
           d == doors[cycles[k].next]
           entityID == EntityID(d.ac.id, d.placeID)
       IN  /\ log' = log \o
                  <<PublishConfig(k, d.ac.id, d.placeID, DiscoveryTopic(entityID),
                                  MqttLock(d.ac, d.placeID, haHost)),
                    Publish(0 - k, DoorStateTopic(entityID), "LOCKED", "discovery")>>
           /\ cycles' = [cycles EXCEPT ![k].next = @ + 1,
                                       ![k].pc = IF cycles[k].next = Len(doors)
                                                 THEN "done" ELSE "loop"]
    /\ UNCHANGED <<conn, haHost, inbox, hpc, cur, timers>>

\* Stop, called once when the process shuts down; the goroutines end with the
\* process.  IsConnected is true of a client that is connected or reconnecting.
Stop ==
    /\ conn # "stopped"
    /\ conn' = "stopped"
    /\ log' = IF conn \in {"up", "connected", "lost"}
              THEN Append(log, Disconnect(DisconnectQuiesce))
              ELSE log
    /\ UNCHANGED <<haHost, cycles, inbox, hpc, cur, timers>>

\* What the steps of the bridge's connection and discovery leave alone.
notMqtt == <<authVars, retryVars, muxVars, addrVars>>

NextDiscovery ==
    \/ Start /\ UNCHANGED notMqtt
    \/ connectHandler /\ UNCHANGED notMqtt
    \/ connectionLostHandler /\ UNCHANGED notMqtt
    \/ reconnect /\ UNCHANGED notMqtt
    \/ \E k \in DOMAIN cycles : discoverDevices(k) /\ UNCHANGED notMqtt
    \/ \E k \in DOMAIN cycles : publishDoorLock(k) /\ UNCHANGED notMqtt
    \/ Stop /\ UNCHANGED notMqtt

\* The device bridge: connection, discovery and shutdown.
SpecDiscovery == Init /\ [][NextDiscovery]_vars

\* The command topics that the discovery messages published so far advertise.
AdvertisedCommandTopics ==
    {log[i].lock.command_topic :
        i \in {j \in DOMAIN log : log[j].kind = "Publish" /\ log[j].payload = "MqttLock"}}

\* The payloads Home Assistant sends, as the discovery message tells it.
AdvertisedPayloads == {"UNLOCK", "LOCK"}

NextNaming ==
    \/ Start /\ UNCHANGED notMqtt
    \/ connectHandler /\ UNCHANGED notMqtt
    \/ \E k \in DOMAIN cycles : discoverDevices(k) /\ UNCHANGED notMqtt
    \/ \E k \in DOMAIN cycles : publishDoorLock(k) /\ UNCHANGED notMqtt
    \/ \E topic \in AdvertisedCommandTopics, command \in AdvertisedPayloads :
          commandHandler(topic, command) /\ UNCHANGED notBridge
    \/ OpenDoorReturn /\ UNCHANGED notBridge
    \/ \E t \in timers : relockTimer(t) /\ UNCHANGED notBridge

\* The device bridge commanded on the topics its discovery advertised.
SpecNaming == Init /\ [][NextNaming]_vars

\* ------------------------------------------- the retrying transport of main()

\* retryableClient.RetryMax
RetryMax == 5

\* What one attempt ends in: a response that is not retried, a 5xx response,
\* or a connection error.
AttemptOutcomes == {"response", "5xx", "error"}

\* The default retry check: connection errors and 5xx responses are retried.
CheckRetry(outcome) == outcome \in {"5xx", "error"}

\* What the steps of the transport leave alone.
notRetry == <<authVars, bridgeVars, lifeVars, muxVars, addrVars>>

\* A request is handed to authClient.DefaultClient, the standard client of
\* retryableClient.
Do(p) ==
    /\ tpc[p] = "idle"
    /\ tpc' = [tpc EXCEPT ![p] = "do"]
    /\ UNCHANGED sent

\* The retry loop with the first attempt counted in RetryMax.
Attempt_CountsFirst(p) ==
    /\ tpc[p] = "do"
    /\ sent' = [sent EXCEPT ![p] = @ + 1]
    /\ \E outcome \in AttemptOutcomes :
          LET i == sent[p]
          IN  tpc' = [tpc EXCEPT ![p] =
                         IF ~CheckRetry(outcome) THEN "done"
                         ELSE IF RetryMax - i <= 1 THEN "failed"
                         ELSE "do"]

\* One iteration of the client's retry loop, i counting from 0: the request
\* is sent; the loop ends when the outcome is not retried or when
\* RetryMax - i <= 0, and goes on after a backoff otherwise.
Attempt(p) ==
    /\ tpc[p] = "do"
    /\ sent' = [sent EXCEPT ![p] = @ + 1]
    /\ \E outcome \in AttemptOutcomes :
          LET i == sent[p]
          IN  tpc' = [tpc EXCEPT ![p] =
                         IF ~CheckRetry(outcome) THEN "done"
                         ELSE IF RetryMax - i <= 0 THEN "failed"
                         ELSE "do"]

NextRetry ==
    \/ \E p \in Procs : Do(p) /\ UNCHANGED notRetry
    \/ \E p \in Procs : Attempt(p) /\ UNCHANGED notRetry

\* Outbound requests beneath the auth layer.
SpecRetry == Init /\ [][NextRetry]_vars

\* --------------------------------------------------- the routes of main()

\* Number of inbound requests served.
MaxServed == 2

\* A URL path is the sequence of its segments: <<>> is "/", <<"login">> is
\* "/login".  The mux redirects a path with "." or ".." segments or repeated
\* slashes to its clean form before routing, so the paths here are clean.
RequestMethods == {"GET", "HEAD", "POST", "PUT"}
RequestPaths ==
    {<<>>, <<"login">>, <<"login", "address">>, <<"login", "other">>,
     <<"loginWithPassword">>, <<"sms">>, <<"stream">>, <<"stream", "cam1">>,
     <<"stream", "cam1", "live">>, <<"pages", "home.html">>,
     <<"pages", "other.html">>, <<"rest", "v1">>}

\* The patterns registered with a method, each with its handler; "{}" is the
\* wildcard segment {cameraId}.
Routes ==
    {[method |-> "GET", path |-> <<"login">>, handler |-> "LoginPageHandler"],
     [method |-> "POST", path |-> <<"login">>, handler |-> "LoginPhoneInputHandler"],
     [method |-> "GET", path |-> <<"login", "address">>, handler |-> "SelectAccountHandler"],
     [method |-> "POST", path |-> <<"loginWithPassword">>,
      handler |-> "LoginWithPasswordHandler"],
     [method |-> "POST", path |-> <<"sms">>, handler |-> "SubmitSmsCodeHandler"],
     [method |-> "GET", path |-> <<"stream", "{}">>, handler |-> "StreamController"],
     [method |-> "GET", path |-> <<"pages", "home.html">>, handler |-> "HomeHandler"]}

\* The mux's matching of a request against a pattern: a GET pattern matches
\* HEAD as well; a wildcard matches one non-empty segment.
Matches(route, method, path) ==
    /\ \/ route.method = method
       \/ route.method = "GET" /\ method = "HEAD"
    /\ Len(route.path) = Len(path)
    /\ \A i \in DOMAIN path :
          \/ route.path[i] = path[i]
          \/ route.path[i] = "{}" /\ path[i] # ""

\* The handler of "/" proxying every request.
RootHandler_ProxyAll(path) == [handler |-> "proxyHandler", location |-> <<>>]

\* The handler registered for the pattern "/", which matches every request
\* that no other pattern matches.
RootHandler(path) ==
    IF path # <<>>
    THEN [handler |-> "proxyHandler", location |-> <<>>]
    ELSE [handler |-> "Redirect", location |-> <<"pages", "home.html">>]

\* The default mux choosing the handler of a request.
ServeMux(method, path) ==
    LET matching == {r \in Routes : Matches(r, method, path)}
    IN  IF matching # {}
        THEN [handler |-> (CHOOSE r \in matching : TRUE).handler, location |-> <<>>]
        ELSE RootHandler(path)

\* The server serves one inbound request.
ServeHTTP(method, path) ==
    /\ Len(served) < MaxServed
    /\ served' = Append(served, [method |-> method, path |-> path,
                                 to |-> ServeMux(method, path)])

\* What serving an inbound request leaves alone up to its handler.
notMux == <<authVars, bridgeVars, lifeVars, retryVars, addrVars>>

NextMux ==
    \E method \in RequestMethods, path \in RequestPaths :
        ServeHTTP(method, path) /\ UNCHANGED notMux

\* The routing of inbound requests.
SpecMux == Init /\ [][NextMux]_vars

\* ------------------------------------------ GetHomeAssistantNetworkAddress

\* Longest interface list and longest IPv4 address list of a supervisor
\* response.
MaxInterfaces == 2
MaxAddresses == 2

\* IPv4 addresses as the supervisor writes them, with and without prefix
\* length, and the empty string.
AddressTexts ==
    {<<"1", "0", ".", "0", ".", "0", ".", "5", "/", "2", "4">>,
     <<"1", "0", ".", "0", ".", "0", ".", "5">>,
     <<>>}

\* The sequences over S of length up to n.
SeqsUpTo(S, n) == UNION {[1..k -> S] : k \in 0..n}

\* The values json.Unmarshal can give haconfig: the result and, per
\* interface, its ipv4.address list.
HAConfigs ==
    {[result |-> r, interfaces |-> ifs] :
        r \in {"ok", "error"},
        ifs \in SeqsUpTo(SeqsUpTo(AddressTexts, MaxAddresses), MaxInterfaces)}

\* strings.Split(s, sep) for a one-character sep: the pieces of s between the
\* separators.
RECURSIVE Split(_, _)
Split(s, sep) ==
    IF \A i \in DOMAIN s : s[i] # sep
    THEN <<s>>
    ELSE LET k == CHOOSE i \in DOMAIN s : s[i] = sep /\ \A j \in 1..(i - 1) : s[j] # sep
         IN  <<SubSeq(s, 1, k - 1)>> \o Split(SubSeq(s, k + 1, Len(s)), sep)

\* return addr, err; and the run-time panic of an index out of range.
ReturnValue(addr, err) == [kind |-> "value", addr |-> addr, err |-> err]
Panic == [kind |-> "panic", addr |-> <<>>, err |-> "index out of range"]

\* GetHomeAssistantNetworkAddress returns (or panics) with r.
AddressReturn(r) ==
    /\ apc' = "returned"
    /\ ret' = r

\* os.LookupEnv("SUPERVISOR_TOKEN"): without the variable the function
\* returns "", nil.
LookupEnv ==
    /\ apc = "idle"
    /\ \E ok \in BOOLEAN :
          IF ok
          THEN token' = "set" /\ apc' = "do" /\ ret' = ret
          ELSE token' = "unset" /\ AddressReturn(ReturnValue(<<>>, "nil"))
    /\ UNCHANGED <<called, haconfig>>

\* client.Do(request)
ClientDo ==
    /\ apc = "do"
    /\ called' = TRUE
    /\ \E ok \in BOOLEAN :
          IF ok
          THEN apc' = "read" /\ ret' = ret
          ELSE AddressReturn(ReturnValue(<<>>, "supervisor ip request"))
    /\ UNCHANGED <<token, haconfig>>

\* io.ReadAll(resp.Body)
ReadAll ==
    /\ apc = "read"
    /\ \E ok \in BOOLEAN :
          IF ok
          THEN apc' = "unmarshal" /\ ret' = ret
          ELSE AddressReturn(ReturnValue(<<>>, "supervisor ip ReadAll"))
    /\ UNCHANGED <<token, called, haconfig>>

\* json.Unmarshal(body, &haconfig)
Unmarshal ==
    /\ apc = "unmarshal"
    /\ \/ /\ AddressReturn(ReturnValue(<<>>, "supervisor ip Unmarshal"))
          /\ haconfig' = haconfig
       \/ \E c \in HAConfigs :
             /\ haconfig' = c
             /\ apc' = "select"
             /\ ret' = ret
    /\ UNCHANGED <<token, called>>

\* The last statements: Interfaces[0].Ipv4.Address[0], split at "/", is
\* returned when the result is "ok" and there is an interface; Address[0] of
\* an empty list panics.
SelectAddress ==
    /\ apc = "select"
    /\ IF haconfig.result = "ok" /\ Len(haconfig.interfaces) > 0
       THEN IF Len(haconfig.interfaces[1]) = 0
            THEN AddressReturn(Panic)
            ELSE AddressReturn(ReturnValue(Split(haconfig.interfaces[1][1], "/")[1], "nil"))
       ELSE AddressReturn(ReturnValue(<<>>, "supervisor ip not found"))
    /\ UNCHANGED <<token, called, haconfig>>

\* What the address lookup leaves alone.
notAddr == <<authVars, bridgeVars, lifeVars, retryVars, muxVars>>

NextAddress ==
    \/ LookupEnv /\ UNCHANGED notAddr
    \/ ClientDo /\ UNCHANGED notAddr
    \/ ReadAll /\ UNCHANGED notAddr
    \/ Unmarshal /\ UNCHANGED notAddr
    \/ SelectAddress /\ UNCHANGED notAddr

\* main()'s call of GetHomeAssistantNetworkAddress.
SpecAddress == Init /\ [][NextAddress]_vars

\* ------------------------------------------------------------- properties

\* Access tokens issued by a session refresh.
RefreshedTokens == {10 + p : p \in Procs}

\* Request p is in RefreshToken's step that writes the store and returns nil.
SavesOk(p) == pc[p] = "rSave" /\ pc'[p] = "rRet" /\ refreshErr'[p] = "none"

\* C1: refreshes are serialized: a RefreshToken call that saves finds the store
\* holding the record it loaded, so it never overwrites the credentials another
\* refresh saved after this one had loaded.
C1_RefreshesSerialized ==
    [][\A p \in Procs : SavesOk(p) => store = credentials[p]]_vars

\* C2: requests that observed an authorization failure against the same stored
\* access token make at most one upstream refresh call between them.
C2_SingleRefreshCall ==
    \A p, q \in Procs :
        (p # q /\ failedTok[p] # -1 /\ failedTok[p] = failedTok[q])
            => nUp[p] + nUp[q] <= 1

\* Request p has been refused once and its RefreshToken call returned nil.
Refreshed(p) ==
    /\ nRefresh[p] = 1
    /\ refreshErr[p] = "none"
    /\ pc[p] \in {"rRet", "getTok2", "getOp2", "dispatch", "done"}

\* C3: after an authorization failure and a successful refresh the store holds
\* a refreshed token, not the refused one; the request is resent exactly once,
\* with a refreshed token; when the upstream accepts the retry the request
\* succeeds.
C3_RetryOnceWithNewToken ==
    \A p \in Procs :
        /\ (Refreshed(p) /\ pc[p] # "done")
              => store.at \in RefreshedTokens /\ store.at # failedTok[p]
        /\ (Refreshed(p) /\ pc[p] = "dispatch")
              => nDispatch[p] = 1 /\ tok[p] \in RefreshedTokens /\ tok[p] # failedTok[p]
        /\ (Refreshed(p) /\ pc[p] = "done" /\ result[p] # "NoCredentials")
              => nDispatch[p] = 2 /\ (answer[p] = "ok" <=> result[p] = "ok")

C3_Witness ==
    \E p \in Procs :
        /\ Refreshed(p) /\ pc[p] = "done"
        /\ nDispatch[p] = 2 /\ result[p] = "ok"
        /\ store.at = 10 + p

\* C4: a request is dispatched at most twice and refreshes at most once; when
\* the refresh fails or the retry is refused too, it ends with AuthExpired.
C4_NoThirdAttempt ==
    \A p \in Procs :
        /\ nDispatch[p] <= 2
        /\ nRefresh[p] <= 1
        /\ (pc[p] = "done" /\ nRefresh[p] = 1 /\ refreshErr[p] # "none")
              => result[p] = "AuthExpired" /\ nDispatch[p] = 1
        /\ (pc[p] = "done" /\ nDispatch[p] = 2 /\ answer[p] = "auth")
              => result[p] = "AuthExpired"

C4_Witness ==
    \E p, q \in Procs :
        /\ pc[p] = "done" /\ nDispatch[p] = 2 /\ answer[p] = "auth"
        /\ pc[q] = "done" /\ nRefresh[q] = 1 /\ refreshErr[q] = "upstream"

\* C5: a RefreshToken call that fails to load the credentials or whose upstream
\* request fails has written nothing: the step leaves the store as it is and the
\* call has made no SaveCredentials.
C5_FailedRefreshLeavesStore ==
    [][\A p \in Procs :
          (pc[p] \in {"rLoad", "rSend"} /\ pc'[p] = "rRet")
              => /\ refreshErr'[p] \in {"load", "upstream"}
                 /\ store' = store
                 /\ nSave'[p] = 0]_vars

C5_Witness ==
    \E p, q \in Procs :
        /\ pc[p] = "rRet" /\ refreshErr[p] = "upstream" /\ nSave[p] = 0
        /\ pc[q] = "rRet" /\ refreshErr[q] = "load"
        /\ store.at # 0

\* C6: when RefreshToken succeeds the store holds the access token, the refresh
\* token and the operator id of the upstream's response, whatever it held.
C6_SuccessfulRefreshReplacesRecord ==
    [][\A p \in Procs :
          SavesOk(p) => store' = [at |-> resp[p].at, rt |-> resp[p].rt, op |-> resp[p].op]]_vars

\* A refresh has replaced a record with another operator id.
C6_Witness ==
    \E p \in Procs :
        /\ pc[p] = "rRet" /\ refreshErr[p] = "none" /\ nSave[p] = 1
        /\ store = Credentials(10 + p, 10 + p, 1)
        /\ failedTok[p] = 0

\* C7: a RefreshToken call sends at most one upstream request and makes at
\* most one store write, and writes only after its request.
C7_OneRequestOneWrite ==
    \A p \in Procs : nUp[p] <= 1 /\ nSave[p] <= nUp[p]

C7_Witness ==
    \E p, q \in Procs :
        /\ pc[p] = "rRet" /\ refreshErr[p] = "save" /\ nUp[p] = 1 /\ nSave[p] = 1
        /\ pc[q] = "rRet" /\ refreshErr[q] = "upstream" /\ nUp[q] = 1 /\ nSave[q] = 0

\* C8: every GetToken and GetOperatorID call returns the access token and the
\* operator id the store holds at the time of the call, or a load error.
C8_NoCachedCredentials ==
    [][\A p \in Procs :
          /\ (pc[p] \in {"getTok", "getTok2"} /\ pc'[p] # pc[p])
                => \/ pc'[p] = "done" /\ result'[p] = "NoCredentials"
                   \/ pc'[p] # "done" /\ tok'[p] = store.at
          /\ (pc[p] \in {"getOp", "getOp2"} /\ pc'[p] # pc[p])
                => \/ pc'[p] = "done" /\ result'[p] = "NoCredentials"
                   \/ pc'[p] # "done" /\ opid'[p] = store.op]_vars

\* A rebuilt request carries the token that another request's refresh stored
\* after this request's own refresh.
C8_Witness ==
    \E p, q \in Procs :
        /\ p # q
        /\ pc[p] = "dispatch" /\ nRefresh[p] = 1
        /\ tok[p] = 10 + q /\ opid[p] = 2
        /\ store = Credentials(10 + q, 10 + q, 2)

\* Command number c is an UNLOCK on the command topic of entity e.
IsUnlockFor(c, e) ==
    inbox[c] = [topic |-> CommandTopicOf(e[1], e[2]), payload |-> "UNLOCK"]

\* The places in the log of what command number c caused.
CausedBy(c) == {i \in DOMAIN log : log[i].cmd = c}
OpensBy(c) == {i \in CausedBy(c) : log[i].kind = "OpenDoor"}
PublishesBy(c, payload) ==
    {i \in CausedBy(c) : log[i].kind = "Publish" /\ log[i].payload = payload}

\* C9 as stated: between the UNLOCKED publish of an UNLOCK command and the
\* LOCKED publish of its relock timer there is no other publish on the
\* entity's state topic.
C9_NoPublishInBetween ==
    \A c \in DOMAIN inbox : \A e \in Entities :
        IsUnlockFor(c, e) =>
            \A i \in PublishesBy(c, "UNLOCKED") : \A j \in PublishesBy(c, "LOCKED") :
                /\ i < j
                /\ \A k \in (i + 1)..(j - 1) :
                      ~(log[k].kind = "Publish" /\ log[k].topic = StateTopicOf(e[1], e[2]))

\* C9, amended: an UNLOCK on the command topic of entity (a, p) causes one
\* open-door call for (placeID = p, accessControlID = a); when the call
\* succeeds, then one UNLOCKED publish on the entity's state topic and then, by
\* its relock timer, one LOCKED publish on that topic; the command causes no
\* other publish, so whatever lies between the two was caused by another
\* command.
C9_UnlockSequence ==
    \A c \in DOMAIN inbox : \A e \in Entities :
        IsUnlockFor(c, e) =>
            LET st == StateTopicOf(e[1], e[2])
                unl == PublishesBy(c, "UNLOCKED")
                lck == PublishesBy(c, "LOCKED")
                tm == {t \in timers : t.cmd = c}
            IN  /\ Cardinality(OpensBy(c)) = 1
                /\ \A o \in OpensBy(c) :
                      /\ log[o] = OpenDoorCall(c, e[2], e[1])
                      /\ \A i \in CausedBy(c) : i >= o
                /\ \A i \in CausedBy(c) :
                      log[i].kind = "Publish" => log[i].topic = st /\ i \in unl \cup lck
                /\ Cardinality(unl) <= 1 /\ Cardinality(lck) <= 1
                /\ \A j \in lck : log[j].by = "timer" /\ \E i \in unl : i < j
                /\ \A i \in unl : log[i].by = "handler"
                /\ tm \subseteq {[cmd |-> c, stateTopic |-> st]}
                /\ (unl # {}) <=> (lck # {} \/ tm # {})
                /\ ~(lck # {} /\ tm # {})
                /\ \A i \in unl : \A j \in lck : \A k \in (i + 1)..(j - 1) : log[k].cmd # c

\* An UNLOCK has been answered by UNLOCKED and LOCKED, with the publish of
\* another command between the two.
C9_Witness ==
    \E c \in DOMAIN inbox : \E e \in Entities :
        /\ IsUnlockFor(c, e)
        /\ \E i \in PublishesBy(c, "UNLOCKED") : \E j \in PublishesBy(c, "LOCKED") :
              \E k \in (i + 1)..(j - 1) :
                  log[k].kind = "Publish" /\ log[k].topic = StateTopicOf(e[1], e[2])

\* C10: a command whose open-door call failed has caused no publish, has no
\* relock timer and has called open-door once.
C10_FailedOpenDoesNothing ==
    \A c \in DOMAIN inbox :
        (\E i \in DOMAIN log : log[i] = OpenFailed(c)) =>
            /\ \A i \in CausedBy(c) : log[i].kind # "Publish"
            /\ \A t \in timers : t.cmd # c
            /\ Cardinality(OpensBy(c)) = 1

\* An open-door call has failed, and commands handled after it have published.
C10_Witness ==
    \E c \in DOMAIN inbox :
        /\ \E i \in DOMAIN log : log[i] = OpenFailed(c)
        /\ \E d \in DOMAIN inbox : d > c /\ PublishesBy(d, "LOCKED") # {}
        /\ hpc = "idle" /\ timers = {}

\* Command number c arrived on a topic that Sscanf resolves to (acID, placeID).
ResolvesTo(c, acID, placeID) ==
    LET sc == Sscanf(inbox[c].topic)
    IN  sc.ok /\ sc.acID = acID /\ sc.placeID = placeID

\* The ids the handler can scan out of the topics that arrive.
ScannedIDs == {3, 7}

\* C11: a LOCK command on a topic that resolves to (a, p) has caused exactly
\* one thing: a LOCKED publish, from the handler, on the state topic of that
\* entity; it has called nothing upstream and has armed no timer.
C11_LockPublishesLocked ==
    \A c \in DOMAIN inbox : \A a, p \in ScannedIDs :
        (inbox[c].payload = "LOCK" /\ ResolvesTo(c, a, p)) =>
            /\ Cardinality(CausedBy(c)) = 1
            /\ \A i \in CausedBy(c) :
                  log[i] = Publish(c, StateTopicOf(a, p), "LOCKED", "handler")
            /\ OpensBy(c) = {}
            /\ \A t \in timers : t.cmd # c

\* A LOCK for entity (7, 3) was handled while the relock timer of an earlier
\* UNLOCK was pending, and the timer has fired since.
C11_Witness ==
    \E c, d \in DOMAIN inbox :
        /\ d < c
        /\ inbox[c] = [topic |-> CommandTopicOf(7, 3), payload |-> "LOCK"]
        /\ PublishesBy(d, "UNLOCKED") # {}
        /\ \E i \in PublishesBy(c, "LOCKED") : \E j \in PublishesBy(d, "LOCKED") : i < j
        /\ timers = {}

\* The ids a discovery cycle can publish topics for.
PublishedIDs == 0..9

\* The topic is a command topic of the published naming scheme.
MatchesScheme(topic) ==
    \E a, p \in PublishedIDs : topic = CommandTopicOf(a, p)

\* C12: a command on a topic outside the published naming scheme has caused
\* no upstream call and no publish and has armed no timer.
C12_UnpublishedTopicIgnored ==
    \A c \in DOMAIN inbox :
        ~MatchesScheme(inbox[c].topic) =>
            /\ CausedBy(c) = {}
            /\ \A t \in timers : t.cmd # c

\* The upstream places queries made so far.
PlacesQueries == {i \in DOMAIN log : log[i].kind = "RequestPlaces"}

\* The discovery messages published so far.
ConfigPublishes ==
    {i \in DOMAIN log : log[i].kind = "Publish" /\ log[i].payload = "MqttLock"}

\* C13: over the lifetime of the bridge the upstream places query is made at
\* most once and no discovery topic is published on more than once.
C13_DiscoveryOnlyOnStartup ==
    /\ Cardinality(PlacesQueries) <= 1
    /\ \A i, j \in ConfigPublishes : log[i].topic = log[j].topic => i = j

\* What discovery cycle number k has published, in order.
CyclePublishes(k) ==
    SelectSeq(log, LAMBDA e : e.cmd = 0 - k /\ e.kind = "Publish")

\* The (place, access control) positions of a places response.
Entries(places) ==
    UNION {{<<pi, ai>> : ai \in DOMAIN places[pi].accessControls} : pi \in DOMAIN places}

\* C14: a discovery cycle that has run to its end has published, for every
\* access-control entry of every place of the response it got, one retained
\* discovery message on homeassistant/lock/<entity>/config and right after it
\* the retained state LOCKED on domru/<entity>/state, and nothing else.
C14_DiscoveryPublishesEachEntry ==
    \A k \in DOMAIN cycles :
        cycles[k].pc = "done" =>
            LET pub == CyclePublishes(k)
                places == cycles[k].places
                acID(e) == places[e[1]].accessControls[e[2]].id
                placeID(e) == places[e[1]].id
                topic(e) == DiscoveryTopic(EntityID(acID(e), placeID(e)))
            IN  /\ Len(pub) = 2 * Cardinality(Entries(places))
                /\ \A e \in Entries(places) :
                      Cardinality({n \in DOMAIN pub : n % 2 = 1 /\ pub[n].topic = topic(e)})
                          = Cardinality({f \in Entries(places) : topic(f) = topic(e)})
                /\ \A n \in DOMAIN pub :
                      n % 2 = 1 =>
                          \E e \in Entries(places) :
                              /\ pub[n].payload = "MqttLock"
                              /\ pub[n].retained
                              /\ pub[n].topic = topic(e)
                              /\ pub[n + 1] = Publish(0 - k, StateTopicOf(acID(e), placeID(e)),
                                                      "LOCKED", "discovery")

\* A cycle has run to its end on the response with two places, and another
\* on the response whose place has no access control.
C14_Witness ==
    \E k, l \in DOMAIN cycles :
        /\ cycles[k].pc = "done" /\ cycles[k].places = TwoPlaces
        /\ Len(CyclePublishes(k)) = 4
        /\ cycles[l].pc = "done" /\ cycles[l].places = EmptyPlace

\* C15: two discovery cycles that have run to their ends on the same places
\* response have published the same topics in the same order, with identical
\* discovery payloads.
C15_DiscoveryIdempotent ==
    \A k, l \in DOMAIN cycles :
        (k < l /\ cycles[k].pc = "done" /\ cycles[l].pc = "done"
               /\ cycles[k].places = cycles[l].places) =>
            LET a == CyclePublishes(k)
                b == CyclePublishes(l)
            IN  /\ Len(a) = Len(b)
                /\ \A n \in DOMAIN a :
                      /\ a[n].topic = b[n].topic
                      /\ a[n].payload = b[n].payload
                      /\ a[n].payload = "MqttLock" => a[n].lock = b[n].lock

\* Two cycles have run to their ends on the response with two places, the
\* second one started by a reconnect.
C15_Witness ==
    /\ Len(cycles) = 2
    /\ \A k \in DOMAIN cycles : cycles[k].pc = "done" /\ cycles[k].places = TwoPlaces
    /\ Cardinality(ConfigPublishes) = 4

\* C16: the disconnect of Stop comes after a publish of "offline" on
\* domru_proxy/status and waits the bounded quiesce time.
C16_OfflineBeforeDisconnect ==
    \A i \in DOMAIN log :
        log[i].kind = "Disconnect" =>
            /\ log[i].quiesce = DisconnectQuiesce
            /\ \E j \in 1..(i - 1) :
                  /\ log[j].kind = "Publish"
                  /\ log[j].topic = StatusTopic
                  /\ log[j].payload = "offline"

\* C17 as stated: no request is sent to the upstream more than 5 times.
C17_AtMostFiveSends == \A p \in Procs : sent[p] <= 5

\* C17, amended: a request is sent at most RetryMax + 1 = 6 times, the first
\* attempt and 5 retries, and the transport gives up on connection or 5xx
\* failures only after the sixth.
C17_AtMostSixSends ==
    \A p \in Procs :
        /\ sent[p] <= RetryMax + 1
        /\ tpc[p] = "failed" => sent[p] = RetryMax + 1
        /\ tpc[p] = "done" => sent[p] >= 1

\* The transport gave up on one request after six sends while another was
\* answered at its first.
C17_Witness ==
    \E p, q \in Procs :
        /\ tpc[p] = "failed" /\ sent[p] = 6
        /\ tpc[q] = "done" /\ sent[q] = 1

\* C18: the startup override leaves the store as it is unless the refresh-token
\* flag is non-empty and the operator-id flag is non-zero; with both set it
\* saves exactly {accessToken empty, refreshToken and operatorID of the flags}
\* (a failed save leaves the store as it is).  Afterwards a successful refresh
\* stores a non-empty access token, and a non-empty access token never
\* becomes empty again.
C18_OverrideNeedsBothFlags ==
    [][/\ (pcMain = "flags" /\ pcMain' = "serving") =>
             IF flags.rt # 0 /\ flags.op # 0
             THEN store' \in {Credentials(0, flags.rt, flags.op), store}
             ELSE store' = store
       /\ \A p \in Procs : SavesOk(p) => store'.at # 0
       /\ (pcMain = "serving" /\ store.at # 0) => store'.at # 0]_vars

\* The override stored {empty, 7, 2}; two requests loaded that record for a
\* refresh, and the refresh of one of them has stored a new access token.
C18_Witness ==
    \E p, q \in Procs :
        /\ p # q
        /\ pc[p] = "rSave" /\ credentials[p] = Credentials(0, 7, 2)
        /\ pc[q] = "rRet" /\ refreshErr[q] = "none"
        /\ store.at = 10 + q

\* The path is one that a gateway-local route claims: login, SMS, stream,
\* home page.
ClaimedLocally(path) ==
    \/ path \in {<<"login">>, <<"login", "address">>, <<"loginWithPassword">>,
                  <<"sms">>, <<"pages", "home.html">>}
    \/ Len(path) = 2 /\ path[1] = "stream" /\ path[2] # ""

C20_NamingAndParsingAgree ==
    \A c \in DOMAIN inbox : \A i \in ConfigPublishes :
        (inbox[c].topic = log[i].lock.command_topic /\ inbox[c].payload = "UNLOCK") =>
            /\ ResolvesTo(c, log[i].acID, log[i].placeID)
            /\ Cardinality(OpensBy(c)) = 1
            /\ \A o \in OpensBy(c) :
                  log[o] = OpenDoorCall(c, log[i].placeID, log[i].acID)
            /\ \A j \in CausedBy(c) :
                  log[j].kind = "Publish" => log[j].topic = log[i].lock.state_topic

\* An UNLOCK on the command topic advertised for access control 7 of place 3
\* has been answered by UNLOCKED and, from its timer, LOCKED.
C20_Witness ==
    \E c \in DOMAIN inbox : \E i \in ConfigPublishes :
        /\ log[i].acID = 7 /\ log[i].placeID = 3
        /\ inbox[c] = [topic |-> log[i].lock.command_topic, payload |-> "UNLOCK"]
        /\ PublishesBy(c, "UNLOCKED") # {}
        /\ PublishesBy(c, "LOCKED") # {}

\* The places in the log of the publishes on a topic.
PublishesOn(topic) ==
    {i \in DOMAIN log : log[i].kind = "Publish" /\ log[i].topic = topic}

\* The state topics of the door entities.
StateTopics == {StateTopicOf(e[1], e[2]) : e \in Entities}

\* C21: when no relock timer is pending for an entity, the last message
\* published on its state topic, if there is one, is LOCKED; so every
\* UNLOCKED is followed by a LOCKED once the timers have fired.
C21_ReturnsToLocked ==
    \A st \in StateTopics :
        (\A t \in timers : t.stateTopic # st) =>
            \A i \in PublishesOn(st) :
                (\A j \in PublishesOn(st) : j <= i) => log[i].payload = "LOCKED"

\* After the discovery publish for an entity, two UNLOCKs for it succeeded,
\* the second before the timer of the first had fired; both timers have fired.
C21_Witness ==
    \E st \in StateTopics : \E c, d \in DOMAIN inbox :
        /\ c < d /\ timers = {} /\ hpc = "idle"
        /\ \E i \in PublishesOn(st) : log[i].by = "discovery"
        /\ \E i \in PublishesBy(c, "UNLOCKED") : \E j \in PublishesBy(d, "UNLOCKED") :
              \E k \in PublishesBy(c, "LOCKED") : \E l \in PublishesBy(d, "LOCKED") :
                  /\ log[i].topic = st /\ log[j].topic = st
                  /\ i < j /\ j < k /\ j < l

\* C22: of two successful UNLOCKs for one entity, the LOCKED of the earlier
\* one's relock timer is not published after the UNLOCKED of the later one.
C22_NoEarlyRelock ==
    \A c, d \in DOMAIN inbox : \A e \in Entities :
        (c < d /\ IsUnlockFor(c, e) /\ IsUnlockFor(d, e)) =>
            \A j \in PublishesBy(c, "LOCKED") : \A i \in PublishesBy(d, "UNLOCKED") : j < i

\* C23: GetHomeAssistantNetworkAddress always returns a value, an address
\* with no error or an error with no address, and never panics; without
\* SUPERVISOR_TOKEN it returns "" and no error and has made no network call.
C23_NeverCrashes ==
    apc = "returned" =>
        /\ ret.kind = "value"
        /\ ret.err = "nil" \/ ret.addr = <<>>
        /\ token = "unset" => ret = ReturnValue(<<>>, "nil") /\ ~called

====
